---- MODULE Spec2Model ----
(***************************************************************************)
(* btrfs-backup: the command-line entry point (backup.go, and its earlier  *)
(* revision btrfs_backup.go).  Two instances of the program are modelled,  *)
(* "cli" started without -server and "srv" started with -server, each on   *)
(* its own host with its own snapshot chain.  The btrfs driver and the RPC *)
(* receiver live in package btrfs, outside these files; their effect on    *)
(* the chains is taken from the design document.  A driver or network call *)
(* may succeed or fail; the name resolver may or may not know the service  *)
(* name the client dials (svcPort).                                         *)
(***************************************************************************)
EXTENDS Integers, Sequences, FiniteSets, TLC

\* ---------------------------------------------------------------- bounds
MaxRuns == 2      \* runs of the program per host
MaxId == 3        \* largest snapshot identifier a driver hands out

\* ------------------------------------------------------- program constants
MinPort == 1024       \* backup.go:135
MaxPort == 65535      \* backup.go:135
ListenPort == 1234    \* backup.go:88   net.Listen("tcp", ":1234")

Hosts == {"cli", "srv"}
Ports == {80, 1234, 2000}          \* values tried for the -port flag
Builds == {"backup", "btrfs_backup"} \* which of the two main files was built

VARIABLES
    build,      \* the main file the binaries were built from
    cfgServer,  \* backupConfig.Server of each host (-server)
    cfgPort,    \* backupConfig.DestinationPort of each host (-port)
    svcPort,    \* port the resolver gives for a non-numeric service name, 0 = unknown
    pc,         \* position of each host in realMain / process / validateConfig
    runs,       \* number of runs started on each host
    chain,      \* snapshot chain on each host's filesystem, in creation order
    err,        \* the error process() returns
    exit,       \* exit status of the last finished run, -1 while none finished
    listening,  \* TCP port the server listens on, 0 = none
    dialed,     \* address the client passed to rpc.DialHTTP, NoAddr before the dial
    subvols,    \* client: result of Subvolumes at line 102
    reply,      \* client: reply of BtrfsRPC.SnapshotsNeeded
    i,          \* client: loop index of line 110
    rpcMsg,     \* the SnapshotsNeeded call on the wire
    stream,     \* the snapshot stream of the running SendSubvolume
    inflight,   \* loop positions whose SendSubvolume has been called and not returned
    \* history of the current run, read only by the properties
    calls,      \* driver and network calls made by each host in its current run
    failed,     \* the steps that failed in each host's current run
    started,    \* snapshots whose transfer the client started, in order
    outcomes,   \* result of each returned transfer, in order
    localAtNeg, \* client chain when the negotiation request was sent
    remoteAtNeg,\* server chain when it answered the negotiation
    negotiated, \* the client received a SnapshotsNeeded reply in this run
    prevOK,     \* the client's previous run ended with status 0 and no failed step
    prevChain   \* client chain at the end of its previous run

vars == <<build, cfgServer, cfgPort, svcPort, pc, runs, chain, err, exit, listening,
          dialed, subvols, reply, i, rpcMsg, stream, inflight, calls, failed,
          started, outcomes, localAtNeg, remoteAtNeg, negotiated, prevOK, prevChain>>

cfgVars == <<build, cfgServer, cfgPort, svcPort>>
cliVars == <<dialed, subvols, reply, i, inflight>>
netVars == <<rpcMsg, stream, listening>>
histVars == <<started, outcomes, localAtNeg, remoteAtNeg, negotiated, prevOK, prevChain>>

\* ------------------------------------------------------------ text helpers
\* Strings are sequences of Unicode code points.
\* Go's string(int): the UTF-8 text of the code point n, U+FFFD when n is not one.
RuneString(n) ==
    IF n < 0 \/ n > 1114111 \/ (n >= 55296 /\ n <= 57343) THEN <<65533>> ELSE <<n>>

IsDecimal(s) == Len(s) > 0 /\ \A k \in 1..Len(s) : s[k] >= 48 /\ s[k] <= 57

RECURSIVE Atoi(_)
Atoi(s) == IF Len(s) = 0 THEN 0
           ELSE 10 * Atoi(SubSeq(s, 1, Len(s) - 1)) + (s[Len(s)] - 48)

\* net: the port of a dial address; a name that is not a number goes to the resolver.
LookupPort(service) == IF IsDecimal(service) THEN Atoi(service) ELSE svcPort

\* backup.go:96   DestinationHost + ":" + string(DestinationPort)
DialAddress(port) == [host |-> "DestinationHost", port |-> RuneString(port)]

\* the range check without its lower limit
ValidPortNoFloor(p) == ~(p > MaxPort)

\* backup.go:135
ValidPort(p) == ~(p > MaxPort \/ p < MinPort)

\* ----------------------------------------------------------- chain helpers
Range(s) == {s[k] : k \in 1..Len(s)}
IsPrefix(r, l) == Len(r) <= Len(l) /\ \A k \in 1..Len(r) : r[k] = l[k]
Prefixes(s) == {SubSeq(s, 1, k) : k \in 0..Len(s)}
RECURSIVE Filter(_, _)
Filter(s, keep) == IF Len(s) = 0 THEN <<>>
                   ELSE (IF s[1] \in keep THEN <<s[1]>> ELSE <<>>) \o Filter(Tail(s), keep)

\* identifiers a driver may give the next snapshot: after every one in the chain
NewIds(c) == {n \in 1..MaxId : \A k \in 1..Len(c) : c[k] < n}

\* the loop body taking the elements from the far end
ElemRev(s, k) == s[Len(s) - k]

\* backup.go:114   subvols[i], Go indexes from 0
Elem(s, k) == s[k + 1]

NoMsg == [kind |-> "none", args |-> <<>>, reply |-> <<>>]
NoStream == [state |-> "none", snap |-> 0]
NoAddr == [host |-> "", port |-> <<>>]

Init ==
    /\ build \in Builds
    /\ cfgServer = [h \in Hosts |-> h = "srv"]
    /\ cfgPort \in [Hosts -> Ports]
    /\ svcPort \in {0, ListenPort}
    /\ pc = [h \in Hosts |-> "idle"]
    /\ runs = [h \in Hosts |-> 0]
    /\ chain = [h \in Hosts |-> <<>>]
    /\ err = [h \in Hosts |-> "nil"]
    /\ exit = [h \in Hosts |-> -1]
    /\ listening = 0
    /\ dialed = NoAddr
    /\ subvols = <<>>
    /\ reply = <<>>
    /\ i = 0
    /\ rpcMsg = NoMsg
    /\ stream = NoStream
    /\ inflight = {}
    /\ calls = [h \in Hosts |-> {}]
    /\ failed = [h \in Hosts |-> {}]
    /\ started = <<>>
    /\ outcomes = <<>>
    /\ localAtNeg = <<>>
    /\ remoteAtNeg = <<>>
    /\ negotiated = FALSE
    /\ prevOK = FALSE
    /\ prevChain = <<>>

\* --------------------------------------------------------- shared pieces
Called(h, name) == calls' = [calls EXCEPT ![h] = @ \cup {name}]
Failed(h, step) == failed' = [failed EXCEPT ![h] = @ \cup {step}]
Goto(h, where) == pc' = [pc EXCEPT ![h] = where]

\* backup.go realMain: status 1 when process() returned an error, else 0.
ExitStatus(e) == IF e # "nil" THEN 1 ELSE 0

\* btrfs_backup.go realMain: the error is logged and the status is 0.
LegacyExitStatus(e) == 0

\* process() returns e to realMain, which returns the exit status to main.
Return(h, e) ==
    /\ err' = [err EXCEPT ![h] = e]
    /\ exit' = [exit EXCEPT ![h] = IF build = "backup" THEN ExitStatus(e)
                                   ELSE LegacyExitStatus(e)]
    /\ Goto(h, "done")

\* log.Fatal: print and os.Exit(1)
Fatal(h) ==
    /\ exit' = [exit EXCEPT ![h] = 1]
    /\ Goto(h, "done")
    /\ UNCHANGED err

\* ------------------------------------------------------ main and realMain
\* A run of the program starts: flags are parsed, the driver is created.
Start(h) ==
    /\ pc[h] \in {"idle", "done"}
    /\ runs[h] < MaxRuns
    /\ runs' = [runs EXCEPT ![h] = @ + 1]
    /\ Goto(h, "prepare")
    /\ err' = [err EXCEPT ![h] = "nil"]
    /\ calls' = [calls EXCEPT ![h] = {}]
    /\ failed' = [failed EXCEPT ![h] = {}]
    /\ IF cfgServer[h]
       THEN UNCHANGED <<cliVars, histVars>>
       ELSE /\ dialed' = NoAddr
            /\ subvols' = <<>>
            /\ reply' = <<>>
            /\ i' = 0
            /\ inflight' = {}
            /\ started' = <<>>
            /\ outcomes' = <<>>
            /\ localAtNeg' = <<>>
            /\ remoteAtNeg' = <<>>
            /\ negotiated' = FALSE
            /\ prevOK' = (pc[h] = "done" /\ exit[h] = 0 /\ failed[h] = {})
            /\ prevChain' = chain[h]
    /\ UNCHANGED <<cfgVars, netVars, chain, exit>>

\* ---------------------------------------------------------- validateConfig
\* backup.go:127-130   driver.Prepare
Prepare(h) ==
    /\ build = "backup"
    /\ pc[h] = "prepare"
    /\ Called(h, "Prepare")
    /\ \/ /\ Goto(h, "portcheck")
          /\ UNCHANGED <<err, exit, failed>>
       \/ /\ Failed(h, "Prepare")
          /\ Return(h, "PrepareError")
    /\ UNCHANGED <<cfgVars, cliVars, netVars, histVars, runs, chain>>

\* btrfs_backup.go:63-71 and 28-35   validateConfig is driver.Prepare alone
LegacyPrepare(h) ==
    /\ build = "btrfs_backup"
    /\ pc[h] = "prepare"
    /\ Called(h, "Prepare")
    /\ \/ /\ Return(h, "nil")
          /\ UNCHANGED failed
       \/ /\ Failed(h, "Prepare")
          /\ Return(h, "PrepareError")
    /\ UNCHANGED <<cfgVars, cliVars, netVars, histVars, runs, chain>>

\* backup.go:132-137   the port range check
PortCheck(h) ==
    /\ pc[h] = "portcheck"
    /\ IF ValidPort(cfgPort[h])
       THEN /\ Goto(h, "valsubvols")
            /\ UNCHANGED <<err, exit, failed>>
       ELSE /\ Failed(h, "Config")
            /\ Return(h, "InvalidPort")
    /\ UNCHANGED <<cfgVars, cliVars, netVars, histVars, runs, chain, calls>>

\* backup.go:141-144   driver.Subvolumes; only an error with a nil list returns
ValSubvolumes(h) ==
    /\ pc[h] = "valsubvols"
    /\ Called(h, "Subvolumes")
    /\ \/ /\ Goto(h, "snapshot")                 \* (list, nil)
          /\ UNCHANGED <<err, exit, failed>>
       \/ /\ Failed(h, "Subvolumes")             \* (nil, err)
          /\ Return(h, "SubvolumesError")
       \/ /\ Failed(h, "Subvolumes")             \* (list, err)
          /\ Goto(h, "snapshot")
          /\ UNCHANGED <<err, exit>>
    /\ UNCHANGED <<cfgVars, cliVars, netVars, histVars, runs, chain>>

\* driver.Snapshot: a new snapshot at the tail of the chain of the host it runs on
DriverSnapshot(h, n) == chain' = [chain EXCEPT ![h] = Append(@, n)]

\* backup.go:146-151   driver.Snapshot, then back in process() the mode branch
ValSnapshot(h) ==
    /\ pc[h] = "snapshot"
    /\ Called(h, "Snapshot")
    /\ \/ /\ \E n \in NewIds(chain[h]) : DriverSnapshot(h, n)
          /\ Goto(h, IF cfgServer[h] THEN "register" ELSE "dial")
          /\ UNCHANGED <<err, exit, failed>>
       \/ /\ Failed(h, "Snapshot")
          /\ Return(h, "SnapshotError")
          /\ UNCHANGED chain
    /\ UNCHANGED <<cfgVars, cliVars, netVars, histVars, runs>>

\* ------------------------------------------------------ process: server mode
\* backup.go:85-86   rpc.Register, rpc.HandleHTTP
Register(h) ==
    /\ pc[h] = "register"
    /\ Goto(h, "listen")
    /\ UNCHANGED <<cfgVars, cliVars, netVars, histVars, runs, chain, err, exit, calls, failed>>

\* backup.go:88-92   net.Listen, then http.Serve which does not return
Listen(h) ==
    /\ pc[h] = "listen"
    /\ Called(h, "Listen")
    /\ \/ /\ listening' = ListenPort
          /\ Goto(h, "serve")
          /\ UNCHANGED <<err, exit, failed>>
       \/ /\ Failed(h, "Listen")
          /\ Fatal(h)
          /\ UNCHANGED listening
    /\ UNCHANGED <<cfgVars, cliVars, rpcMsg, stream, histVars, runs, chain>>

\* BtrfsRPC.SnapshotsNeeded on the server: the identifiers of the request it holds
SnapshotsNeeded(args, held) == Filter(args, Range(held))

ServeSnapshotsNeeded(h) ==
    /\ cfgServer[h]
    /\ pc[h] = "serve"
    /\ rpcMsg.kind = "req"
    /\ rpcMsg' = [kind |-> "resp", args |-> rpcMsg.args,
                  reply |-> SnapshotsNeeded(rpcMsg.args, chain[h])]
    /\ remoteAtNeg' = chain[h]
    /\ UNCHANGED <<cfgVars, cliVars, stream, listening, started, outcomes, localAtNeg,
                   negotiated, prevOK, prevChain, pc, runs, chain, err, exit, calls, failed>>

\* A chain lists the snapshots a host holds in identifier order.
Materialize(c, x) ==
    SelectSeq(c, LAMBDA y : y < x) \o <<x>> \o SelectSeq(c, LAMBDA y : y > x)

\* The server's ReceiveIncremental: the streamed snapshot is materialized in its
\* chain, or rejected whole when it is already there.
ReceiveIncremental(h) ==
    /\ cfgServer[h]
    /\ pc[h] = "serve"
    /\ stream.state = "sent"
    /\ IF stream.snap \in Range(chain[h])
       THEN /\ stream' = [stream EXCEPT !.state = "rejected"]
            /\ UNCHANGED chain
       ELSE /\ stream' = [stream EXCEPT !.state = "received"]
            /\ chain' = [chain EXCEPT ![h] = Materialize(@, stream.snap)]
    /\ UNCHANGED <<cfgVars, cliVars, rpcMsg, listening, histVars, pc, runs, err, exit,
                   calls, failed>>

\* The stream breaks on the way: a driver or network error.
StreamFail ==
    /\ stream.state = "sent"
    /\ stream' = [stream EXCEPT !.state = "failed"]
    /\ UNCHANGED <<cfgVars, cliVars, rpcMsg, listening, histVars, pc, runs, chain, err,
                   exit, calls, failed>>

\* ------------------------------------------------------ process: client mode
\* backup.go:96-99   rpc.DialHTTP; log.Fatal when it fails
Dial(h) ==
    /\ pc[h] = "dial"
    /\ Called(h, "Dial")
    /\ dialed' = DialAddress(cfgPort[h])
    /\ \/ /\ LookupPort(DialAddress(cfgPort[h]).port) # 0
          /\ LookupPort(DialAddress(cfgPort[h]).port) = listening
          /\ pc["srv"] = "serve"
          /\ Goto(h, "subvolumes")
          /\ UNCHANGED <<err, exit, failed>>
       \/ /\ Failed(h, "Dial")
          /\ Fatal(h)
    /\ UNCHANGED <<cfgVars, subvols, reply, i, inflight, netVars, histVars, runs, chain>>

\* backup.go:102-103   driver.Subvolumes; its error is overwritten at line 105
ClientSubvolumes(h) ==
    /\ pc[h] = "subvolumes"
    /\ Called(h, "Subvolumes")
    /\ \/ /\ subvols' = chain[h]                                   \* (list, nil)
          /\ UNCHANGED failed
       \/ /\ subvols' = <<>>                                       \* (nil, err)
          /\ Failed(h, "Enumerate")
       \/ /\ subvols' \in Prefixes(chain[h]) \ {<<>>}              \* (list, err)
          /\ Failed(h, "Enumerate")
    /\ Goto(h, "call")
    /\ UNCHANGED <<cfgVars, dialed, reply, i, inflight, netVars, histVars, runs, chain,
                   err, exit>>

\* backup.go:105   client.Call("BtrfsRPC.SnapshotsNeeded", args, &reply): the request
CallSend(h) ==
    /\ pc[h] = "call"
    /\ Called(h, "Call")
    /\ rpcMsg' = [kind |-> "req", args |-> subvols, reply |-> <<>>]
    /\ localAtNeg' = chain[h]
    /\ Goto(h, "await")
    /\ UNCHANGED <<cfgVars, cliVars, stream, listening, started, outcomes, remoteAtNeg,
                   negotiated, prevOK, prevChain, runs, chain, err, exit, failed>>

\* backup.go:105-108   the call returns with the reply
CallReturn(h) ==
    /\ pc[h] = "await"
    /\ rpcMsg.kind = "resp"
    /\ reply' = rpcMsg.reply
    /\ rpcMsg' = NoMsg
    /\ negotiated' = TRUE
    /\ i' = 0
    /\ Goto(h, "loop")
    /\ UNCHANGED <<cfgVars, dialed, subvols, inflight, stream, listening, started,
                   outcomes, localAtNeg, remoteAtNeg, prevOK, prevChain, runs, chain,
                   err, exit, calls, failed>>

\* backup.go:106-108   the call returns an error (connection lost, malformed reply)
CallFail(h) ==
    /\ pc[h] = "await"
    /\ rpcMsg' = NoMsg
    /\ Failed(h, "Call")
    /\ Fatal(h)
    /\ UNCHANGED <<cfgVars, cliVars, stream, listening, histVars, runs, chain, calls>>

\* backup.go:110   i < len(subvols)
LoopCond(k, s) == k < Len(s)

\* backup.go:114   btrfs_driver.SendSubvolume(subvols[i]) is called
SendSubvolumeCall(h) ==
    /\ pc[h] = "loop"
    /\ LoopCond(i, subvols)
    /\ Called(h, "SendSubvolume")
    /\ stream' = [state |-> "sent", snap |-> Elem(subvols, i)]
    /\ inflight' = inflight \cup {i}
    /\ started' = Append(started, Elem(subvols, i))
    /\ Goto(h, "sending")
    /\ UNCHANGED <<cfgVars, dialed, subvols, reply, i, rpcMsg, listening, outcomes,
                   localAtNeg, remoteAtNeg, negotiated, prevOK, prevChain, runs, chain,
                   err, exit, failed>>

\* backup.go:114, 110   SendSubvolume returns, its result is dropped, i++
SendSubvolumeReturn(h) ==
    /\ pc[h] = "sending"
    /\ stream.state \in {"received", "rejected", "failed"}
    /\ outcomes' = Append(outcomes, IF stream.state = "received" THEN "ok" ELSE "error")
    /\ IF stream.state = "received" THEN UNCHANGED failed ELSE Failed(h, "Transfer")
    /\ stream' = NoStream
    /\ inflight' = inflight \ {i}
    /\ i' = i + 1
    /\ Goto(h, "loop")
    /\ UNCHANGED <<cfgVars, dialed, subvols, reply, rpcMsg, listening, started,
                   localAtNeg, remoteAtNeg, negotiated, prevOK, prevChain, runs, chain,
                   err, exit, calls>>

\* backup.go:110, 119   the loop ends and process() returns nil
LoopExit(h) ==
    /\ pc[h] = "loop"
    /\ ~LoopCond(i, subvols)
    /\ Return(h, "nil")
    /\ UNCHANGED <<cfgVars, cliVars, netVars, histVars, runs, chain, calls, failed>>

Next ==
    \/ \E h \in Hosts : Start(h)
    \/ \E h \in Hosts : Prepare(h)
    \/ \E h \in Hosts : LegacyPrepare(h)
    \/ \E h \in Hosts : PortCheck(h)
    \/ \E h \in Hosts : ValSubvolumes(h)
    \/ \E h \in Hosts : ValSnapshot(h)
    \/ \E h \in Hosts : Register(h)
    \/ \E h \in Hosts : Listen(h)
    \/ \E h \in Hosts : ServeSnapshotsNeeded(h)
    \/ \E h \in Hosts : ReceiveIncremental(h)
    \/ StreamFail
    \/ \E h \in Hosts : Dial(h)
    \/ \E h \in Hosts : ClientSubvolumes(h)
    \/ \E h \in Hosts : CallSend(h)
    \/ \E h \in Hosts : CallReturn(h)
    \/ \E h \in Hosts : CallFail(h)
    \/ \E h \in Hosts : SendSubvolumeCall(h)
    \/ \E h \in Hosts : SendSubvolumeReturn(h)
    \/ \E h \in Hosts : LoopExit(h)

Spec == Init /\ [][Next]_vars

\* ===================================================================== claims
L == localAtNeg
R == remoteAtNeg
Suffix(l, n) == SubSeq(l, n + 1, Len(l))
ClientDone == pc["cli"] = "done" /\ runs["cli"] > 0
NegotiationFailed == failed["cli"] \cap {"Enumerate", "Dial", "Call"} # {}

\* C1: when the server chain R is a prefix of the local chain L, the snapshots a
\* client run transfers are exactly L[len(R):] in local order, so nothing the
\* server reported as present is sent.
C1_TransfersAreSuffix ==
    (negotiated /\ "Enumerate" \notin failed["cli"] /\ IsPrefix(R, L))
        => /\ IsPrefix(started, Suffix(L, Len(R)))
           /\ Range(started) \cap Range(reply) = {}
           /\ ClientDone => started = Suffix(L, Len(R))

\* C2: once the transfer at position k of the run has failed, no transfer is
\* started at a later position: the transfers of the run stop at the failed one.
C2_AbortAfterFailedTransfer ==
    \A k \in 1..Len(outcomes) : outcomes[k] = "error" => Len(started) <= k

\* C3: when the enumeration, the connection or the SnapshotsNeeded call of a
\* client run fails, the run is aborted and starts no snapshot transfer.
C3_NoTransferAfterFailedNegotiation ==
    NegotiationFailed => /\ started = <<>>
                         /\ ClientDone => exit["cli"] = 1

\* C4: a finished run reports failure exactly when one of its steps failed.
C4_StatusReportsFailure ==
    \A h \in Hosts : (pc[h] = "done" /\ runs[h] > 0) => (exit[h] = 0 <=> failed[h] = {})

OutOfRange(p) == p < 1024 \/ p > 65535
BadPortRun(h) == build = "backup" /\ OutOfRange(cfgPort[h])

\* C5: with a destination port outside 1024..65535 the run makes no driver call
\* and no network call, and ends with the port's configuration error.
C5_BadPortBeforeAnyCall ==
    \A h \in Hosts : BadPortRun(h)
        => /\ calls[h] = {}
           /\ (pc[h] = "done" /\ runs[h] > 0) => err[h] = "InvalidPort"

\* C5, amended: with a destination port outside 1024..65535 the run makes no
\* network call and no driver call other than Prepare, and ends with status 1:
\* with the invalid-port error when Prepare succeeded, else with Prepare's error.
C5_BadPortAfterPrepareOnly ==
    \A h \in Hosts : BadPortRun(h)
        => /\ calls[h] \subseteq {"Prepare"}
           /\ (pc[h] = "done" /\ runs[h] > 0)
                 => /\ calls[h] = {"Prepare"}
                    /\ exit[h] = 1
                    /\ err[h] = IF "Prepare" \in failed[h] THEN "PrepareError"
                                ELSE "InvalidPort"

\* C5 witness: a run with an out-of-range port has ended on the port check.
C5_BadPortRejected ==
    \E h \in Hosts : /\ BadPortRun(h)
                      /\ pc[h] = "done"
                      /\ err[h] = "InvalidPort"
                      /\ exit[h] = 1
                      /\ calls[h] = {"Prepare"}

\* C6: when the server chain R is not a prefix of the local chain L, the client
\* run transfers no snapshot and fails with ChainDivergence.
C6_DivergenceStopsRun ==
    (negotiated /\ "Enumerate" \notin failed["cli"] /\ ~IsPrefix(R, L))
        => /\ started = <<>>
           /\ ClientDone => err["cli"] = "ChainDivergence"

\* C7: a client run that follows a fully successful client run transfers no
\* snapshot (nothing creates a local snapshot between two runs).
C7_SecondRunSendsNothing ==
    prevOK => started = <<>>

\* C8: the server's chain changes only in a step in which the server's
\* ReceiveIncremental materializes a streamed snapshot.
C8_OnlyReceiveChangesServerChain ==
    [][chain'["srv"] # chain["srv"]
          => (stream.state = "sent" /\ stream'.state = "received")]_vars

\* C9: within a client run the transfers are started in the order of the local
\* chain, each only after the one before it has returned, and never two at once.
C9_InOrderOneAtATime ==
    /\ Cardinality(inflight) <= 1
    /\ IsPrefix(started, subvols)
    /\ IsPrefix(subvols, chain["cli"])
    /\ Len(started) = Len(outcomes) + Cardinality(inflight)
    /\ stream.state # "none" => inflight = {Len(outcomes)}

\* C9 witness: the second transfer of a run is in flight after the first returned.
C9_SecondTransferInFlight ==
    /\ Len(started) = 2
    /\ Len(outcomes) = 1
    /\ inflight = {1}
    /\ started[1] # started[2]

\* the decimal text of a port number
RECURSIVE Itoa(_)
Itoa(n) == IF n < 10 THEN <<48 + n>> ELSE Itoa(n \div 10) \o <<48 + (n % 10)>>

\* C10: the server listens on its -port value and the client dials the decimal
\* text of its -port value, so equal values meet on the same port.
C10_PortFlagIsListenAndDialPort ==
    /\ listening # 0 => listening = cfgPort["srv"]
    /\ dialed # NoAddr => dialed.port = Itoa(cfgPort["cli"])

====
